---- MODULE Spec2Model ----
(***************************************************************************)
(* A model of the FastAPI students server of src/application/app.py: the   *)
(* word-frequency analyzer (analyze_text_file), the student endpoints      *)
(* (create_student, update_student) over a MongoDB collection, the health, *)
(* main and joke endpoints, and the Prometheus request counters.           *)
(*                                                                         *)
(* Text is modelled at the level the code works on it: the upload is a     *)
(* sequence of bytes, bytes.decode() is UTF-8 decoding into code points,   *)
(* str.lower() maps code points, and re.findall(r"\b[A-Za-z]+\b", ...) is  *)
(* the left-to-right scan of the regular expression with Python's Unicode  *)
(* word boundary.                                                          *)
(***************************************************************************)
EXTENDS Integers, Sequences, FiniteSets, TLC

(***************************************************************************)
(* Bounds of the model.                                                    *)
(***************************************************************************)
\* longest upload, in bytes, analysed under SpecAnalyze
MaxLen == 5
\* number of requests the server has in flight at once
MaxCalls == 2
\* number of requests the server receives in one behaviour
MaxRequests == 3
\* longest text, in words, analysed under SpecWords
MaxWords == 5

Calls == 1..MaxCalls

(***************************************************************************)
(* Bytes and code points.  The byte alphabet holds two lower-case letters, *)
(* an upper-case letter, a digit, a space and the two bytes of the UTF-8   *)
(* encoding of U+00E9 (e with acute), a non-ASCII letter.                  *)
(***************************************************************************)
ByteAlphabet == {97, 98, 65, 49, 32, 195, 169}

BoundedSeq(S, n) == UNION {[1..k -> S] : k \in 0..n}

\* bytes.decode(): UTF-8, strict.  One-byte and two-byte sequences; the lead
\* bytes of longer sequences lie outside ByteAlphabet.
RECURSIVE decode_from(_, _)
decode_from(b, i) ==
    IF i > Len(b) THEN [ok |-> TRUE, text |-> <<>>]
    ELSE IF b[i] < 128
    THEN LET rest == decode_from(b, i + 1)
         IN  [ok |-> rest.ok, text |-> <<b[i]>> \o rest.text]
    ELSE IF b[i] \in 194..223 /\ i + 1 <= Len(b) /\ b[i + 1] \in 128..191
    THEN LET rest == decode_from(b, i + 2)
         IN  [ok |-> rest.ok,
              text |-> <<(b[i] - 192) * 64 + (b[i + 1] - 128)>> \o rest.text]
    ELSE [ok |-> FALSE, text |-> <<>>]

decode(b) == decode_from(b, 1)

\* str.lower() on one code point of the Basic Latin and Latin-1 blocks
lower_char(c) ==
    IF c \in 65..90 \/ (c \in 192..222 /\ c # 215) THEN c + 32 ELSE c

lower(text) == [i \in 1..Len(text) |-> lower_char(text[i])]

\* a mutant of IsAsciiLetter: the class [A-Za-z0-9]
IsAsciiLetter_alnum(c) == c \in 48..57 \/ c \in 65..90 \/ c \in 97..122

\* the character class [A-Za-z]
IsAsciiLetter(c) == c \in 65..90 \/ c \in 97..122

\* the class \w of a str pattern: Unicode alphanumerics and the underscore
IsWordChar(c) ==
    \/ c \in 48..57 \/ c \in 65..90 \/ c \in 97..122 \/ c = 95
    \/ c \in {170, 178, 179, 181, 185, 186, 188, 189, 190}
    \/ (c \in 192..255 /\ c \notin {215, 247})

\* a mutant of IsWordBoundary: the pattern without its \b anchors
IsWordBoundary_none(text, i) == TRUE

\* \b before position i (1..Len+1): exactly one of the characters on the two
\* sides of the position is a word character; outside the text counts as none
IsWordBoundary(text, i) ==
    LET before == i > 1 /\ IsWordChar(text[i - 1])
        after  == i <= Len(text) /\ IsWordChar(text[i])
    IN  before # after

\* the ends e at which \b[A-Za-z]+\b matches starting at position i
MatchEnds(text, i) ==
    {e \in i..Len(text) :
        /\ IsWordBoundary(text, i)
        /\ \A k \in i..e : IsAsciiLetter(text[k])
        /\ IsWordBoundary(text, e + 1)}

Max(S) == CHOOSE x \in S : \A y \in S : y <= x

\* re.findall: scan from the left; at each position take the greedy (longest)
\* match and continue after it, else move one character on
RECURSIVE findall_from(_, _)
findall_from(text, i) ==
    IF i > Len(text) THEN <<>>
    ELSE LET ends == MatchEnds(text, i)
         IN  IF ends = {} THEN findall_from(text, i + 1)
             ELSE <<SubSeq(text, i, Max(ends))>> \o findall_from(text, Max(ends) + 1)

findall(text) == findall_from(text, 1)

(***************************************************************************)
(* The dict word_counts: keys in insertion order, with their values.       *)
(***************************************************************************)
EmptyDict == [keys |-> <<>>, vals |-> <<>>]

DictGet(d, k, default) ==
    IF \E i \in 1..Len(d.keys) : d.keys[i] = k
    THEN d.vals[CHOOSE i \in 1..Len(d.keys) : d.keys[i] = k]
    ELSE default

DictSet(d, k, v) ==
    IF \E i \in 1..Len(d.keys) : d.keys[i] = k
    THEN [d EXCEPT !.vals[CHOOSE i \in 1..Len(d.keys) : d.keys[i] = k] = v]
    ELSE [keys |-> Append(d.keys, k), vals |-> Append(d.vals, v)]

\* for word in words: word_counts[word] = word_counts.get(word, 0) + 1
RECURSIVE count_words(_, _, _)
count_words(words, i, d) ==
    IF i > Len(words) THEN d
    ELSE count_words(words, i + 1, DictSet(d, words[i], DictGet(d, words[i], 0) + 1))

word_counts_of(words) == count_words(words, 1, EmptyDict)

DictValues(d) == {d.vals[i] : i \in 1..Len(d.vals)}

\* a mutant of max_frequency_of: the minimum instead of the maximum
max_frequency_min(d) == CHOOSE x \in DictValues(d) : \A y \in DictValues(d) : x <= y

\* max(word_counts.values())
max_frequency_of(d) == Max(DictValues(d))

RECURSIVE items_with_count(_, _, _)
items_with_count(d, n, i) ==
    IF i > Len(d.keys) THEN <<>>
    ELSE (IF d.vals[i] = n THEN <<d.keys[i]>> ELSE <<>>) \o items_with_count(d, n, i + 1)

\* a mutant of most_frequent_words_of: only the first word that attains the maximum
most_frequent_words_first(d) ==
    <<d.keys[CHOOSE i \in 1..Len(d.keys) :
                /\ d.vals[i] = max_frequency_of(d)
                /\ \A j \in 1..(i - 1) : d.vals[j] # max_frequency_of(d)]>>

\* [word for word, count in word_counts.items() if count == max_frequency]
most_frequent_words_of(d) == items_with_count(d, max_frequency_of(d), 1)

(***************************************************************************)
(* The responses of analyze_text_file.                                     *)
(***************************************************************************)
HTTP_200_OK == 200
HTTP_201_CREATED == 201
HTTP_400_BAD_REQUEST == 400
HTTP_404_NOT_FOUND == 404
JSONResponse(status_code, content) == [status |-> status_code, body |-> content]

\* an exception that leaves the handler: the framework answers 500
Raised(exception) ==
    [status |-> 500, body |-> [exception |-> exception]]

SameFrequencyMessage(n) == "All words have the same frequency of " \o ToString(n)
OneWordMessage == "Only one word found in the file"

\* a mutant of all_same_frequency: compares the number of distinct words
all_same_frequency_keys(d) == Len(d.keys) = 1

\* len(set(word_counts.values())) == 1
all_same_frequency(d) == Cardinality(DictValues(d)) = 1

\* a mutant of only_one_word: the single-word override is lost
only_one_word_never(words) == FALSE

\* len(words) == 1
only_one_word(words) == Len(words) = 1

\* a mutant of analysis_result_of: most_frequent_words is set on both branches
analysis_result_always_list(filename, words) ==
    LET word_counts == word_counts_of(words)
        max_frequency == max_frequency_of(word_counts)
        base == [filename |-> filename,
                 total_words |-> Len(words),
                 highest_frequency |-> max_frequency,
                 most_frequent_words |-> most_frequent_words_of(word_counts)]
        branched ==
            IF all_same_frequency(word_counts)
            THEN [message |-> SameFrequencyMessage(max_frequency)] @@ base
            ELSE base
    IN  IF only_one_word(words)
        THEN [message |-> OneWordMessage] @@ branched
        ELSE branched

\* the dict analysis_result after lines 246-261
analysis_result_of(filename, words) ==
    LET word_counts == word_counts_of(words)
        max_frequency == max_frequency_of(word_counts)
        base == [filename |-> filename,
                 total_words |-> Len(words),
                 highest_frequency |-> max_frequency]
        branched ==
            IF all_same_frequency(word_counts)
            THEN [message |-> SameFrequencyMessage(max_frequency)] @@ base
            ELSE [most_frequent_words |-> most_frequent_words_of(word_counts)] @@ base
    IN  IF only_one_word(words)
        THEN [message |-> OneWordMessage] @@ branched
        ELSE branched

\* a mutant of is_empty_file: the emptiness check is skipped
is_empty_file_never(file_content) == FALSE

\* len(file_content) == 0
is_empty_file(file_content) == Len(file_content) = 0

\* len(words) == 0
no_valid_words(words) == Len(words) = 0

\* the body of analyze_text_file after the upload has been read
analyze(file_content, filename) ==
    IF is_empty_file(file_content)
    THEN JSONResponse(HTTP_400_BAD_REQUEST, [Error |-> "Empty file"])
    ELSE LET decoded == decode(file_content)
         IN  IF ~decoded.ok THEN Raised("UnicodeDecodeError")
             ELSE LET words == findall(lower(decoded.text))
                  IN  IF no_valid_words(words)
                      THEN JSONResponse(HTTP_400_BAD_REQUEST,
                                        [Error |-> "No valid words in file"])
                      ELSE JSONResponse(HTTP_200_OK, analysis_result_of(filename, words))

(***************************************************************************)
(* Python and BSON values carry their type: a filter value matches a       *)
(* stored value only when type and value agree, and json.dumps serialises  *)
(* only some types.                                                        *)
(***************************************************************************)
Str(s) == [t |-> "str", v |-> s]
Float(x) == [t |-> "float", v |-> x]

\* bson.ObjectId(hex): the object id with the given 24-digit hexadecimal form
ObjectId(hex) == [t |-> "ObjectId", v |-> hex]

ValidStudentIds == {"62422b3329661ce0eab2066f", "62422b3329661ce0eab20670"}
InvalidStudentIds == {"not-an-object-id"}

\* ObjectId.is_valid
ObjectId_is_valid(s) == s \in ValidStudentIds

\* the instances of StudentModel the model submits: gpa passes le=4.0, which
\* the float -inf does too
Students ==
    [id : {ObjectId(h) : h \in ValidStudentIds},
     name : {Str("Jane Doe")},
     email : {Str("jdoe@example.com")},
     course : {Str("Experiments, Science, and Fashion in Nanophotonics")},
     gpa : {Float("3.0"), Float("-Infinity")}]

\* a mutant of jsonable_encoder: the id is kept as an ObjectId
jsonable_encoder_raw_id(student) ==
    [_id |-> student.id, name |-> student.name, email |-> student.email,
     course |-> student.course, gpa |-> student.gpa]

\* jsonable_encoder(student): fields by alias, json_encoders = {ObjectId: str}
jsonable_encoder(student) ==
    [_id |-> Str(student.id.v), name |-> student.name, email |-> student.email,
     course |-> student.course, gpa |-> student.gpa]

\* json.dumps(content, allow_nan=False) in JSONResponse.render
json_serializable(doc) ==
    \A k \in DOMAIN doc :
        \/ doc[k].t = "str"
        \/ doc[k].t = "float" /\ doc[k].v \notin {"-Infinity", "Infinity", "NaN"}

json_error(doc) ==
    IF \E k \in DOMAIN doc : doc[k].t \notin {"str", "float"}
    THEN "TypeError" ELSE "ValueError"

\* JSONResponse(status_code, content) for a document read from the collection
JSONResponseOfDocument(status_code, doc) ==
    IF json_serializable(doc) THEN JSONResponse(status_code, doc)
    ELSE Raised(json_error(doc))

\* the documents of the collection that the filter {"_id": id} matches
find_by_id(coll, id) == {d \in coll : d._id = id}

\* {"$set": {field: value}} applied to a document
set_field(doc, field, value) == (field :> value) @@ doc

UpdateFields == {"course"}
UpdateValues == {"Devops & Cloud Computing"}

(***************************************************************************)
(* Uploads.                                                                *)
(***************************************************************************)
UploadFile(filename, content) == [filename |-> filename, content |-> content]

\* the uploads of SpecAnalyze: every byte sequence up to MaxLen
AnalyzeFiles == {UploadFile("test.txt", b) : b \in BoundedSeq(ByteAlphabet, MaxLen)}

\* the uploads of Spec: "a b a", "B" and "" under two names
ServerFiles ==
    {UploadFile("a.txt", <<97, 32, 98, 32, 97>>), UploadFile("b.txt", <<65>>),
     UploadFile("a.txt", <<>>)}

(***************************************************************************)
(* The state of the server.                                                *)
(***************************************************************************)
VARIABLES
    pc,          \* per call: "idle", "analyze_read", "create_find", "done"
    req,         \* per call: the request being served, its arguments and its
                 \* place in the order of arrival
    response,    \* per call: the response returned by the handler
    collection,  \* the documents of db_handler[MONGODB_COLLECTION]
    REQUESTS,
    HEALTHCHECK_REQUESTS,
    FREQUENCY_ANALYZER_REQUESTS,
    MAIN_ENDPOINT_REQUESTS,
    STUDENT_CREATE_REQUESTS,
    JOKE_ENDPOINT_REQUESTS,
    received     \* number of requests the webserver has received

counters == <<REQUESTS, HEALTHCHECK_REQUESTS, FREQUENCY_ANALYZER_REQUESTS,
              MAIN_ENDPOINT_REQUESTS, STUDENT_CREATE_REQUESTS, JOKE_ENDPOINT_REQUESTS>>

vars == <<pc, req, response, collection, counters, received>>

NoRequest == [op |-> "none", arrival |-> 0]
NoResponse == [status |-> 0]

Init ==
    /\ pc = [c \in Calls |-> "idle"]
    /\ req = [c \in Calls |-> NoRequest]
    /\ response = [c \in Calls |-> NoResponse]
    /\ collection = {}
    /\ REQUESTS = 0
    /\ HEALTHCHECK_REQUESTS = 0
    /\ FREQUENCY_ANALYZER_REQUESTS = 0
    /\ MAIN_ENDPOINT_REQUESTS = 0
    /\ STUDENT_CREATE_REQUESTS = 0
    /\ JOKE_ENDPOINT_REQUESTS = 0
    /\ received = 0

\* a call slot takes a new request when it serves none
Accepts(c) == pc[c] \in {"idle", "done"} /\ received < MaxRequests

Return(c, request, resp) ==
    /\ pc' = [pc EXCEPT ![c] = "done"]
    /\ req' = [req EXCEPT ![c] = request]
    /\ response' = [response EXCEPT ![c] = resp]

health_check(c) ==
    /\ Accepts(c)
    /\ received' = received + 1
    /\ REQUESTS' = REQUESTS + 1
    /\ HEALTHCHECK_REQUESTS' = HEALTHCHECK_REQUESTS + 1
    /\ Return(c, [op |-> "health_check", arrival |-> received + 1], JSONResponse(HTTP_200_OK, [health |-> "ok"]))
    /\ UNCHANGED <<collection, FREQUENCY_ANALYZER_REQUESTS, MAIN_ENDPOINT_REQUESTS,
                   STUDENT_CREATE_REQUESTS, JOKE_ENDPOINT_REQUESTS>>

root_endpoint_message ==
    [message |-> "Hello world will be updated automatically in private repository 10"]

read_main(c) ==
    /\ Accepts(c)
    /\ received' = received + 1
    /\ REQUESTS' = REQUESTS + 1
    /\ MAIN_ENDPOINT_REQUESTS' = MAIN_ENDPOINT_REQUESTS + 1
    /\ Return(c, [op |-> "read_main", arrival |-> received + 1], JSONResponse(HTTP_200_OK, root_endpoint_message))
    /\ UNCHANGED <<collection, HEALTHCHECK_REQUESTS, FREQUENCY_ANALYZER_REQUESTS,
                   STUDENT_CREATE_REQUESTS, JOKE_ENDPOINT_REQUESTS>>

\* analyze_text_file up to its await: the counters, then file.read() is pending
analyze_text_file_call(c, file) ==
    /\ Accepts(c)
    /\ received' = received + 1
    /\ REQUESTS' = REQUESTS + 1
    /\ FREQUENCY_ANALYZER_REQUESTS' = FREQUENCY_ANALYZER_REQUESTS + 1
    /\ pc' = [pc EXCEPT ![c] = "analyze_read"]
    /\ req' = [req EXCEPT ![c] = [op |-> "analyze_text_file", arrival |-> received + 1, file |-> file]]
    /\ response' = [response EXCEPT ![c] = NoResponse]
    /\ UNCHANGED <<collection, HEALTHCHECK_REQUESTS, MAIN_ENDPOINT_REQUESTS,
                   STUDENT_CREATE_REQUESTS, JOKE_ENDPOINT_REQUESTS>>

\* a mutant of file_read: one buffer shared by the calls in flight
file_read_shared(c) ==
    req[CHOOSE d \in Calls : pc[d] = "analyze_read"].file.content

\* await file.read(): the bytes of the call's own upload
file_read(c) == req[c].file.content

\* analyze_text_file from the completion of file.read() to its return
analyze_text_file_resume(c) ==
    /\ pc[c] = "analyze_read"
    /\ LET file_content == file_read(c)
       IN  Return(c, req[c], analyze(file_content, req[c].file.filename))
    /\ UNCHANGED <<collection, counters, received>>

\* create_student up to the completion of insert_one
create_student_call(c, student) ==
    /\ Accepts(c)
    /\ received' = received + 1
    /\ STUDENT_CREATE_REQUESTS' = STUDENT_CREATE_REQUESTS + 1
    /\ REQUESTS' = REQUESTS + 1
    /\ LET encoded == jsonable_encoder(student)
           request == [op |-> "create_student", arrival |-> received + 1,
                       student |-> student, inserted_id |-> encoded._id]
       IN  IF find_by_id(collection, encoded._id) # {}
           THEN /\ Return(c, request, Raised("DuplicateKeyError"))
                /\ UNCHANGED collection
           ELSE /\ collection' = collection \cup {encoded}
                /\ pc' = [pc EXCEPT ![c] = "create_find"]
                /\ req' = [req EXCEPT ![c] = request]
                /\ response' = [response EXCEPT ![c] = NoResponse]
    /\ UNCHANGED <<HEALTHCHECK_REQUESTS, FREQUENCY_ANALYZER_REQUESTS,
                   MAIN_ENDPOINT_REQUESTS, JOKE_ENDPOINT_REQUESTS>>

\* create_student from find_one({"_id": new_student.inserted_id}) to its return
create_student_find(c) ==
    /\ pc[c] = "create_find"
    /\ LET found == find_by_id(collection, req[c].inserted_id)
       IN  IF found = {}
           THEN Return(c, req[c], JSONResponse(HTTP_201_CREATED, [null |-> Str("null")]))
           ELSE Return(c, req[c],
                       JSONResponseOfDocument(HTTP_201_CREATED, CHOOSE d \in found : TRUE))
    /\ UNCHANGED <<collection, counters, received>>

\* tell_joke: the joke API answers 200 with a joke, or another status
tell_joke(c, status_code) ==
    /\ Accepts(c)
    /\ received' = received + 1
    /\ REQUESTS' = REQUESTS + 1
    /\ JOKE_ENDPOINT_REQUESTS' = JOKE_ENDPOINT_REQUESTS + 1
    /\ Return(c, [op |-> "tell_joke", arrival |-> received + 1],
              IF status_code # 200
              THEN JSONResponse(HTTP_200_OK, [error |-> "Failed to get a joke"])
              ELSE JSONResponse(HTTP_200_OK, [setup |-> "setup", punchline |-> "punchline"]))
    /\ UNCHANGED <<collection, HEALTHCHECK_REQUESTS, FREQUENCY_ANALYZER_REQUESTS,
                   MAIN_ENDPOINT_REQUESTS, STUDENT_CREATE_REQUESTS>>

\* update_student: find_one_and_update is one operation of the database
update_student(c, student_id, field, value) ==
    /\ Accepts(c)
    /\ received' = received + 1
    /\ LET request == [op |-> "update_student", arrival |-> received + 1,
                       student_id |-> student_id, field |-> field, value |-> value]
       IN  IF ~ObjectId_is_valid(student_id)
           THEN /\ Return(c, request, Raised("InvalidId"))
                /\ UNCHANGED collection
           ELSE LET found == find_by_id(collection, ObjectId(student_id))
                IN  IF found = {}
                    THEN /\ Return(c, request,
                                   JSONResponse(HTTP_404_NOT_FOUND,
                                                [message |-> "Student not found"]))
                         /\ UNCHANGED collection
                    ELSE LET doc == CHOOSE d \in found : TRUE
                             updated_student == set_field(doc, field, Str(value))
                         IN  /\ collection' = (collection \ {doc}) \cup {updated_student}
                             /\ Return(c, request,
                                       JSONResponseOfDocument(HTTP_200_OK, updated_student))
    /\ UNCHANGED counters

HealthCheck == \E c \in Calls : health_check(c)
ReadMain == \E c \in Calls : read_main(c)
AnalyzeCall == \E c \in Calls, file \in ServerFiles : analyze_text_file_call(c, file)
AnalyzeResume == \E c \in Calls : analyze_text_file_resume(c)
CreateCall == \E c \in Calls, student \in Students : create_student_call(c, student)
CreateFind == \E c \in Calls : create_student_find(c)
TellJoke == \E c \in Calls, status_code \in {200, 503} : tell_joke(c, status_code)
UpdateStudent ==
    \E c \in Calls, student_id \in ValidStudentIds \cup InvalidStudentIds,
       field \in UpdateFields, value \in UpdateValues :
        update_student(c, student_id, field, value)

Next ==
    \/ HealthCheck
    \/ ReadMain
    \/ AnalyzeCall
    \/ AnalyzeResume
    \/ CreateCall
    \/ CreateFind
    \/ TellJoke
    \/ UpdateStudent

Spec == Init /\ [][Next]_vars

(***************************************************************************)
(* The analyzer alone: one upload, any byte sequence up to MaxLen.         *)
(***************************************************************************)
AnalyzeOneCall ==
    /\ pc[1] = "idle"
    /\ \E file \in AnalyzeFiles : analyze_text_file_call(1, file)
AnalyzeOneResume == analyze_text_file_resume(1)

NextAnalyze == AnalyzeOneCall \/ AnalyzeOneResume

SpecAnalyze == Init /\ [][NextAnalyze]_vars

(***************************************************************************)
(* The analyzer on texts of words: one upload, up to MaxWords words of the *)
(* vocabulary "a", "b", "ab" separated by single spaces.                   *)
(***************************************************************************)
Vocabulary == {<<97>>, <<98>>, <<97, 98>>}

RECURSIVE JoinWords(_)
JoinWords(ws) ==
    IF Len(ws) = 0 THEN <<>>
    ELSE IF Len(ws) = 1 THEN ws[1]
    ELSE ws[1] \o <<32>> \o JoinWords(Tail(ws))

WordFiles == {UploadFile("test.txt", JoinWords(ws)) : ws \in BoundedSeq(Vocabulary, MaxWords)}

AnalyzeWordsCall ==
    /\ pc[1] = "idle"
    /\ \E file \in WordFiles : analyze_text_file_call(1, file)
AnalyzeWordsResume == analyze_text_file_resume(1)

NextWords == AnalyzeWordsCall \/ AnalyzeWordsResume

SpecWords == Init /\ [][NextWords]_vars

(***************************************************************************)
(* Properties of analyze_text_file, checked under SpecAnalyze.             *)
(***************************************************************************)
AnalyzeDone(c) == pc[c] = "done" /\ req[c].op = "analyze_text_file"
Succeeded(c) == AnalyzeDone(c) /\ response[c].status = HTTP_200_OK

ContentOf(c) == req[c].file.content
Decodes(c) == decode(ContentOf(c)).ok
LoweredTextOf(c) == lower(decode(ContentOf(c)).text)
WordsOf(c) == findall(LoweredTextOf(c))
DistinctWordsOf(c) == {WordsOf(c)[i] : i \in 1..Len(WordsOf(c))}
Occurrences(words, w) == Cardinality({i \in 1..Len(words) : words[i] = w})
SeqToSet(q) == {q[i] : i \in 1..Len(q)}

\* an ASCII letter, as the specification's tokenization rule understands it
IsAlphabetic(ch) == (65 <= ch /\ ch <= 90) \/ (97 <= ch /\ ch <= 122)

\* the positions at which a maximal run of ASCII letters starts
LetterRunStarts(text) ==
    {i \in 1..Len(text) :
        IsAlphabetic(text[i]) /\ (i = 1 \/ ~IsAlphabetic(text[i - 1]))}

\* the last position of the maximal run of ASCII letters that starts at i
LetterRunEnd(text, i) ==
    CHOOSE e \in i..Len(text) :
        /\ \A k \in i..e : IsAlphabetic(text[k])
        /\ (e = Len(text) \/ ~IsAlphabetic(text[e + 1]))

\* the maximal runs of ASCII letters with no word character (digit, underscore,
\* non-ASCII letter) directly before or after them
WholeWordRunStarts(text) ==
    {i \in LetterRunStarts(text) :
        /\ (i = 1 \/ ~IsWordChar(text[i - 1]))
        /\ LET e == LetterRunEnd(text, i)
           IN  e = Len(text) \/ ~IsWordChar(text[e + 1])}

\* C1 as stated: whenever the non-empty content decodes to text with at least
\* one maximal run of ASCII letters, the call succeeds and total_words is the
\* number of maximal runs of ASCII letters of the lower-cased text.
C1_EveryLetterRunCounts ==
    \A c \in Calls :
        (AnalyzeDone(c) /\ ContentOf(c) # <<>> /\ Decodes(c)
            /\ LetterRunStarts(LoweredTextOf(c)) # {})
        => /\ response[c].status = HTTP_200_OK
           /\ response[c].body.total_words
                = Cardinality(LetterRunStarts(LoweredTextOf(c)))

\* C1 amended: whenever the non-empty content decodes to text with at least one
\* maximal run of ASCII letters that no digit, underscore or non-ASCII letter
\* touches, the call succeeds and total_words is the number of such runs; a run
\* that touches one is not a word.
C1_WholeWordRunsCount ==
    \A c \in Calls :
        (AnalyzeDone(c) /\ ContentOf(c) # <<>> /\ Decodes(c)
            /\ WholeWordRunStarts(LoweredTextOf(c)) # {})
        => /\ response[c].status = HTTP_200_OK
           /\ response[c].body.total_words
                = Cardinality(WholeWordRunStarts(LoweredTextOf(c)))

\* C1 witness: a successful analysis of a text in which one letter run is a
\* word and another touches a digit or a non-ASCII letter
C1_Witness ==
    \E c \in Calls :
        /\ Succeeded(c)
        /\ response[c].body.total_words >= 1
        /\ Cardinality(LetterRunStarts(LoweredTextOf(c)))
              > Cardinality(WholeWordRunStarts(LoweredTextOf(c)))

\* C2: on success highest_frequency is the largest number of occurrences of a
\* distinct word, and most_frequent_words, when present, lists exactly the
\* distinct words that occur that often, each once.
C2_HighestFrequency ==
    \A c \in Calls :
        Succeeded(c) =>
        LET words == WordsOf(c)
            body == response[c].body
            top == {w \in DistinctWordsOf(c) :
                        \A x \in DistinctWordsOf(c) :
                            Occurrences(words, x) <= Occurrences(words, w)}
        IN  /\ \E w \in DistinctWordsOf(c) :
                   body.highest_frequency = Occurrences(words, w)
            /\ \A w \in DistinctWordsOf(c) :
                   Occurrences(words, w) <= body.highest_frequency
            /\ "most_frequent_words" \in DOMAIN body =>
                   /\ SeqToSet(body.most_frequent_words) = top
                   /\ Len(body.most_frequent_words) = Cardinality(top)

\* C2 witness: a success whose most_frequent_words leaves out a word of the text
C2_Witness ==
    \E c \in Calls :
        /\ Succeeded(c)
        /\ "most_frequent_words" \in DOMAIN response[c].body
        /\ response[c].body.highest_frequency = 2
        /\ SeqToSet(response[c].body.most_frequent_words) # DistinctWordsOf(c)

AllShareOneCount(c) ==
    \A w, x \in DistinctWordsOf(c) :
        Occurrences(WordsOf(c), w) = Occurrences(WordsOf(c), x)

\* C3 as stated: when all distinct words share one count, the success has no
\* most_frequent_words and its message states the shared frequency.
C3_SharedCountMessage ==
    \A c \in Calls :
        (Succeeded(c) /\ AllShareOneCount(c)) =>
        /\ "most_frequent_words" \notin DOMAIN response[c].body
        /\ "message" \in DOMAIN response[c].body
        /\ response[c].body.message
             = SameFrequencyMessage(response[c].body.highest_frequency)

\* C3 amended: when all distinct words share one count, the success has no
\* most_frequent_words; its message states the shared frequency, except that
\* for a text of exactly one word it is the single-word message.
C3_SharedCountMessageUnlessOneWord ==
    \A c \in Calls :
        (Succeeded(c) /\ AllShareOneCount(c)) =>
        /\ "most_frequent_words" \notin DOMAIN response[c].body
        /\ "message" \in DOMAIN response[c].body
        /\ response[c].body.message
             = IF Len(WordsOf(c)) = 1 THEN OneWordMessage
               ELSE SameFrequencyMessage(Occurrences(WordsOf(c), WordsOf(c)[1]))

\* C3 witness: two different words, one occurrence each, reported as sharing
\* the frequency 1
C3_Witness ==
    \E c \in Calls :
        /\ Succeeded(c)
        /\ Cardinality(DistinctWordsOf(c)) = 2
        /\ AllShareOneCount(c)
        /\ response[c].body.message = "All words have the same frequency of 1"

\* C4: a text of exactly one word gives total_words = 1, the single-word
\* message and no most_frequent_words.
C4_OneWord ==
    \A c \in Calls :
        (AnalyzeDone(c) /\ ContentOf(c) # <<>> /\ Decodes(c) /\ Len(WordsOf(c)) = 1) =>
        /\ response[c].status = HTTP_200_OK
        /\ response[c].body.total_words = 1
        /\ "message" \in DOMAIN response[c].body
        /\ response[c].body.message = "Only one word found in the file"
        /\ "most_frequent_words" \notin DOMAIN response[c].body

\* C4 witness: the analysis of a one-word text has returned
C4_Witness ==
    \E c \in Calls :
        /\ Succeeded(c)
        /\ Len(WordsOf(c)) = 1
        /\ Len(ContentOf(c)) > 1

\* C5: a success carries exactly one of most_frequent_words and message:
\* most_frequent_words exactly when two distinct words differ in their counts,
\* message exactly when all distinct words share one count.
C5_ExactlyOne ==
    \A c \in Calls :
        Succeeded(c) =>
        LET body == response[c].body
            differ == \E w, x \in DistinctWordsOf(c) :
                          Occurrences(WordsOf(c), w) # Occurrences(WordsOf(c), x)
        IN  /\ ("most_frequent_words" \in DOMAIN body) # ("message" \in DOMAIN body)
            /\ ("most_frequent_words" \in DOMAIN body) <=> differ
            /\ ("message" \in DOMAIN body) <=> ~differ

\* C5 witness: a success with most_frequent_words and without message
C5_Witness ==
    \E c \in Calls :
        /\ Succeeded(c)
        /\ "most_frequent_words" \in DOMAIN response[c].body
        /\ "message" \notin DOMAIN response[c].body
        /\ Len(response[c].body.most_frequent_words) = 1

\* C6: zero-length content is rejected with 400 {"Error": "Empty file"}: not
\* the no-words rejection, not a success, no analysis field.
C6_EmptyFile ==
    \A c \in Calls :
        (AnalyzeDone(c) /\ Len(ContentOf(c)) = 0) =>
        /\ response[c].status = 400
        /\ DOMAIN response[c].body = {"Error"}
        /\ response[c].body.Error = "Empty file"

\* C6 witness: the analysis of an empty upload has returned
C6_Witness ==
    \E c \in Calls :
        AnalyzeDone(c) /\ ContentOf(c) = <<>> /\ response[c].status # 0

\* C7: non-empty content that decodes to text without any ASCII letter is
\* rejected with 400 {"Error": "No valid words in file"} and no analysis field.
C7_NoValidWords ==
    \A c \in Calls :
        (AnalyzeDone(c) /\ ContentOf(c) # <<>> /\ Decodes(c)
            /\ \A i \in 1..Len(LoweredTextOf(c)) : ~IsAlphabetic(LoweredTextOf(c)[i]))
        => /\ response[c].status = 400
           /\ DOMAIN response[c].body = {"Error"}
           /\ response[c].body.Error = "No valid words in file"

\* C7 witness: the analysis of digits and spaces has returned
C7_Witness ==
    \E c \in Calls :
        /\ AnalyzeDone(c)
        /\ Len(ContentOf(c)) >= 2
        /\ \A i \in 1..Len(ContentOf(c)) : ContentOf(c)[i] \in {49, 32}
        /\ response[c].status = 400

(***************************************************************************)
(* Properties of the student endpoints and of concurrent calls, checked    *)
(* under Spec.                                                             *)
(***************************************************************************)
\* the step in which call c receives a request for the endpoint op
Receives(c, op) ==
    /\ received' = received + 1
    /\ req'[c].op = op
    /\ req'[c].arrival = received'

\* the student as submitted: _id as a string, name, email, course, gpa
SubmittedDocument(student) ==
    [_id |-> [t |-> "str", v |-> student.id.v], name |-> student.name,
     email |-> student.email, course |-> student.course, gpa |-> student.gpa]

StoredUnder(coll, id) == {d \in coll : d._id.v = id}

\* C8 as stated: once create_student has stored a student with id X,
\* update_student(X, field, value) returns 200 and the record stored under X
\* has field equal to value.
C8_UpdateStoredStudent ==
    [][\A c \in Calls :
         (Receives(c, "update_student")
             /\ StoredUnder(collection, req'[c].student_id) # {})
         => /\ response'[c].status = 200
            /\ \A d \in StoredUnder(collection', req'[c].student_id) :
                   /\ req'[c].field \in DOMAIN d
                   /\ d[req'[c].field].v = req'[c].value]_vars

C10_IndependentCalls ==
    \A c \in Calls :
        (pc[c] = "done" /\ req[c].op = "analyze_text_file") =>
        response[c] = analyze(req[c].file.content, req[c].file.filename)

\* C10 witness: a call has returned its analysis while another call, received
\* with a different upload, is still waiting for file.read()
C10_Witness ==
    \E c, d \in Calls :
        /\ pc[c] = "done" /\ req[c].op = "analyze_text_file"
        /\ response[c].status = 200
        /\ pc[d] = "analyze_read"
        /\ req[d].arrival < req[c].arrival
        /\ req[d].file # req[c].file

(***************************************************************************)
(* Properties of analyze_text_file under reordering, checked under         *)
(* SpecWords.                                                              *)
(***************************************************************************)
\* the words of a text as written, split at its spaces
RECURSIVE SplitAtSpaces(_, _, _)
SplitAtSpaces(bytes, i, word) ==
    IF i > Len(bytes) THEN (IF word = <<>> THEN <<>> ELSE <<word>>)
    ELSE IF bytes[i] = 32
    THEN (IF word = <<>> THEN <<>> ELSE <<word>>) \o SplitAtSpaces(bytes, i + 1, <<>>)
    ELSE SplitAtSpaces(bytes, i + 1, Append(word, bytes[i]))

WrittenWordsOf(c) == SplitAtSpaces(ContentOf(c), 1, <<>>)

\* the text whose k-th word is the p[k]-th word of ws
Reordered(ws, p) == JoinWords([k \in 1..Len(ws) |-> ws[p[k]]])

NoDuplicates(q) == \A i, j \in 1..Len(q) : q[i] = q[j] => i = j

\* two responses of the analyzer agree up to the order of most_frequent_words
SameAnalysis(r1, r2) ==
    /\ r1.status = r2.status
    /\ r1.status = 200 =>
        /\ r1.body.total_words = r2.body.total_words
        /\ r1.body.highest_frequency = r2.body.highest_frequency
        /\ ("message" \in DOMAIN r1.body) <=> ("message" \in DOMAIN r2.body)
        /\ ("most_frequent_words" \in DOMAIN r1.body)
             <=> ("most_frequent_words" \in DOMAIN r2.body)
        /\ "most_frequent_words" \in DOMAIN r1.body =>
             /\ SeqToSet(r1.body.most_frequent_words)
                  = SeqToSet(r2.body.most_frequent_words)
             /\ NoDuplicates(r1.body.most_frequent_words)
             /\ NoDuplicates(r2.body.most_frequent_words)

\* C11: the analysis of a text and the analysis of the same words in any other
\* order report the same total_words and highest_frequency, both or neither a
\* message, and the same set of most_frequent_words, no word twice.
C11_OrderOfWords ==
    \A c \in Calls :
        AnalyzeDone(c) =>
        LET ws == WrittenWordsOf(c)
        IN  \A text \in {Reordered(ws, p) : p \in Permutations(1..Len(ws))} :
                SameAnalysis(response[c], analyze(text, req[c].file.filename))

\* C11 witness: the analysis of five words, two of which attain the highest
\* frequency, has returned
C11_Witness ==
    \E c \in Calls :
        /\ Succeeded(c)
        /\ Len(WrittenWordsOf(c)) = 5
        /\ "most_frequent_words" \in DOMAIN response[c].body
        /\ Len(response[c].body.most_frequent_words) = 2
        /\ response[c].body.highest_frequency = 2

(***************************************************************************)
(* Properties of the request counter and of update_student on unknown ids, *)
(* checked under Spec.                                                     *)
(***************************************************************************)
\* C12: server_requests_total equals the number of requests the webserver has
\* handled, whatever the endpoints they went to.
C12_RequestsTotal == REQUESTS = received

\* C13: update_student with an id under which no record is stored returns 404
\* {"message": "Student not found"} and leaves the collection unchanged.
C13_UnknownIdNotFound ==
    [][\A c \in Calls :
         (Receives(c, "update_student")
             /\ StoredUnder(collection, req'[c].student_id) = {})
         => /\ response'[c] = [status |-> 404,
                               body |-> [message |-> "Student not found"]]
            /\ collection' = collection]_vars

\* the part of C13 that the code keeps: an id of 24 hexadecimal digits under
\* which no record is stored gets the 404, and no request to update_student
\* creates, changes or removes a record
WellFormedUnknownIdNotFound ==
    [][\A c \in Calls :
         Receives(c, "update_student")
         => /\ collection' = collection
            /\ (req'[c].student_id \in {"62422b3329661ce0eab2066f",
                                        "62422b3329661ce0eab20670"}
                  /\ StoredUnder(collection, req'[c].student_id) = {})
               => response'[c] = [status |-> 404,
                                  body |-> [message |-> "Student not found"]]]_vars

====
